---------------------------- MODULE Spec2Model ----------------------------
(***************************************************************************)
(* Boldfit Sentinel Analyst: the three tools (analyze_inventory_risk,      *)
(* check_competitor_pricing, send_restock_alert) and the agent run of the  *)
(* two variants, src/boldfit_app.py ("app", Streamlit) and                 *)
(* src/sentinel_groq.py ("console").                                       *)
(*                                                                         *)
(* Strings are sequences of symbols (one symbol per word or digit), so     *)
(* that Python's substring test and f-string formatting are computed, not  *)
(* assumed.  A float that is the quotient of two integers is kept as the   *)
(* exact reduced fraction, plus the IEEE values inf, -inf and nan that     *)
(* pandas produces for a zero divisor; the rounding of binary64 and of     *)
(* to_json's decimal rendering is not modelled.  Money is in cents.        *)
(***************************************************************************)
EXTENDS Integers, Sequences, FiniteSets, TLC

VARIABLES
    variant,          \* "app" (boldfit_app.py) or "console" (sentinel_groq.py)
    cred,             \* what st.secrets / the environment holds for GROQ_API_KEY
    pc,               \* position of the script
    df,               \* the module-level table: GLOBAL_DF (app), df (console)
    call,             \* the tool call being / last executed, with its arguments
    result,           \* what that call returned
    surface,          \* lines the last send_restock_alert put on the output surface
    iterations,       \* AgentExecutor's iteration counter of the current run
    pending,          \* tool calls of the model's last response still to execute
    first,            \* name of the first capability invoked in the current run
    healthySeen,      \* analyze_inventory_risk returned the sentinel in this run
    afterHealthy,     \* a capability was invoked after that, in this run
    finishReason,     \* why the current run ended
    stdoutRedirected, \* sys.stdout is AGENT_LOG (app, line 123)
    errorReported     \* the script itself reported a failure as text

vars == <<variant, cred, pc, df, call, result, surface, iterations, pending,
          first, healthySeen, afterHealthy, finishReason, stdoutRedirected,
          errorReported>>

---------------------------------------------------------------------------
(* Bounds of the explored inputs.                                          *)

MaxRows == 2
MaxStock == 2
MaxBurn == 2
MaxThreshold == 1
MaxNameLen == 4
MaxQuantity == 1
MaxCallsPerResponse == 2

(* Program constants.                                                      *)

DefaultThreshold == 10
YogaMatPrice == 1999
WheyProteinPrice == 4500
OtherPrice == 2800
MaxIterations == 15

Variants == {"app", "console"}

---------------------------------------------------------------------------
(* Strings.                                                                *)

YogaMatFragment == <<"Yoga", "Mat">>
WheyProteinFragment == <<"Whey", "Protein">>

ProYogaMat == <<"Pro", "Yoga", "Mat">>
WheyChocolate == <<"Whey", "Protein", "(Chocolate)">>
ResistanceBands == <<"Resistance", "Bands", "Set">>

\* Python's `frag in s` on str: frag occurs at some offset of s.
Contains(s, frag) ==
    \E i \in 0..(Len(s) - Len(frag)) :
        \A j \in 1..Len(frag) : s[i + j] = frag[j]

Digit(n) == CASE n = 0 -> "0" [] n = 1 -> "1" [] n = 2 -> "2" [] n = 3 -> "3"
              [] n = 4 -> "4" [] n = 5 -> "5" [] n = 6 -> "6" [] n = 7 -> "7"
              [] n = 8 -> "8" [] n = 9 -> "9"

RECURSIVE NatToStr(_)
NatToStr(n) == IF n < 10 THEN <<Digit(n)>>
               ELSE NatToStr(n \div 10) \o <<Digit(n % 10)>>

\* f"{quantity}" for an int: str(int).
IntToStr(i) == IF i < 0 THEN <<"-">> \o NatToStr(-i) ELSE NatToStr(i)

\* f"{price:.2f}" for a price that is a whole number of cents.
Format2f(cents) ==
    NatToStr(cents \div 100) \o <<".">>
        \o <<Digit((cents % 100) \div 10), Digit(cents % 10)>>

---------------------------------------------------------------------------
(* The product table.                                                      *)

Row(name, stock, burn, price) ==
    [product_name |-> name, current_stock |-> stock,
     daily_burn_rate |-> burn, current_price |-> price]

\* pd.DataFrame(INITIAL_DATA_MOCK) / load_mock_database(): the columns that
\* the tools read (lead_time_days, product_id, supplier_email are never read).
INITIAL_DATA_MOCK ==
    << Row(ProYogaMat, 15, 3, 1500),
       Row(WheyChocolate, 500, 10, 4999),
       Row(ResistanceBands, 45, 2, 2500) >>

\* A DataFrame: its rows and, when the column exists, days_remaining.
Frame(rows) == [rows |-> rows, has_days |-> FALSE, days |-> <<>>]

---------------------------------------------------------------------------
(* Floats that are quotients of integers.                                  *)

Abs(x) == IF x < 0 THEN -x ELSE x

RECURSIVE GCD(_, _)
GCD(a, b) == IF b = 0 THEN a ELSE GCD(b, a % b)

Num(n, d) == [k |-> "num", n |-> n, d |-> d]
Inf == [k |-> "inf", n |-> 1, d |-> 0]
NegInf == [k |-> "-inf", n |-> -1, d |-> 0]
NaN == [k |-> "nan", n |-> 0, d |-> 0]

\* A plausible slip: a zero divisor counted as "no days left".
TrueDivZeroAsZero(s, b) ==
    IF b = 0 THEN Num(0, 1)
    ELSE LET g == GCD(Abs(s), Abs(b))
             sg == IF (s < 0) # (b < 0) THEN -1 ELSE 1
         IN  Num(sg * (Abs(s) \div g), Abs(b) \div g)

\* Series / Series of int64 columns, element by element: true division in
\* float64; pandas raises nothing for a zero divisor, it yields inf, -inf
\* or nan.
TrueDiv(s, b) ==
    IF b = 0
    THEN (IF s > 0 THEN Inf ELSE IF s < 0 THEN NegInf ELSE NaN)
    ELSE LET g == GCD(Abs(s), Abs(b))
             sg == IF (s < 0) # (b < 0) THEN -1 ELSE 1
         IN  Num(sg * (Abs(s) \div g), Abs(b) \div g)

\* A plausible slip: strict comparison.
LessEqStrict(v, t) ==
    CASE v.k = "num" -> v.n < t * v.d
      [] v.k = "-inf" -> TRUE
      [] OTHER -> FALSE

\* float <= int, IEEE: any comparison with nan is False.
LessEq(v, t) ==
    CASE v.k = "num" -> v.n <= t * v.d
      [] v.k = "-inf" -> TRUE
      [] OTHER -> FALSE

---------------------------------------------------------------------------
(* analyze_inventory_risk.                                                 *)

HealthySentinel == <<"All stock levels are healthy.">>
IsHealthy(r) == r.kind = "text" /\ r.text = HealthySentinel

\* df['current_stock'] / df['daily_burn_rate']
DaysRemaining(rows) ==
    [i \in 1..Len(rows) |->
        TrueDiv(rows[i].current_stock, rows[i].daily_burn_rate)]

RECURSIVE Urgent(_, _, _, _)
\* frame[frame['days_remaining'] <= threshold_days], then the five columns
\* of the to_json(orient="records") output, rows kept in table order.
Urgent(rows, days, threshold_days, i) ==
    IF i > Len(rows) THEN <<>>
    ELSE (IF LessEq(days[i], threshold_days)
          THEN << [product_name |-> rows[i].product_name,
                   current_stock |-> rows[i].current_stock,
                   daily_burn_rate |-> rows[i].daily_burn_rate,
                   days_remaining |-> days[i],
                   current_price |-> rows[i].current_price] >>
          ELSE <<>>)
         \o Urgent(rows, days, threshold_days, i + 1)

\* The return value: the sentinel when urgent_items.empty, else the records.
RiskReport(rows, days, threshold_days) ==
    LET urgent_items == Urgent(rows, days, threshold_days, 1)
    IN  IF urgent_items = <<>>
        THEN [kind |-> "text", text |-> HealthySentinel, records |-> <<>>]
        ELSE [kind |-> "records", text |-> <<>>, records |-> urgent_items]

\* boldfit_app.py: the column is added to a copy; GLOBAL_DF is not touched.
app_analyze_inventory_risk(frame, threshold_days) ==
    LET df_current == [frame EXCEPT !.has_days = TRUE,
                                    !.days = DaysRemaining(frame.rows)]
    IN  [ret |-> RiskReport(df_current.rows, df_current.days, threshold_days),
         frame |-> frame]

\* sentinel_groq.py: the column is assigned on the module-level df itself.
console_analyze_inventory_risk(frame, threshold_days) ==
    LET assigned == [frame EXCEPT !.has_days = TRUE,
                                  !.days = DaysRemaining(frame.rows)]
    IN  [ret |-> RiskReport(assigned.rows, assigned.days, threshold_days),
         frame |-> assigned]

analyze_inventory_risk(v, frame, threshold_days) ==
    IF v = "app" THEN app_analyze_inventory_risk(frame, threshold_days)
    ELSE console_analyze_inventory_risk(frame, threshold_days)

---------------------------------------------------------------------------
(* check_competitor_pricing.                                               *)

PricingText(product_name, competitor_price) ==
    <<"The average competitor price for">> \o product_name \o <<"is $">>
        \o Format2f(competitor_price) \o <<".">>

\* A plausible slip: the two substring tests in the other order.
app_check_competitor_pricing_swapped(product_name) ==
    LET competitor_price ==
            IF Contains(product_name, WheyProteinFragment) THEN WheyProteinPrice
            ELSE IF Contains(product_name, YogaMatFragment) THEN YogaMatPrice
            ELSE OtherPrice
    IN  [kind |-> "text", records |-> <<>>,
         text |-> PricingText(product_name, competitor_price)]

app_check_competitor_pricing(product_name) ==
    LET competitor_price ==
            IF Contains(product_name, YogaMatFragment) THEN YogaMatPrice
            ELSE IF Contains(product_name, WheyProteinFragment) THEN WheyProteinPrice
            ELSE OtherPrice
    IN  [kind |-> "text", records |-> <<>>,
         text |-> PricingText(product_name, competitor_price)]

console_check_competitor_pricing(product_name) ==
    LET competitor_price ==
            IF Contains(product_name, YogaMatFragment) THEN YogaMatPrice
            ELSE IF Contains(product_name, WheyProteinFragment) THEN WheyProteinPrice
            ELSE OtherPrice
    IN  [kind |-> "text", records |-> <<>>,
         text |-> PricingText(product_name, competitor_price)]

check_competitor_pricing(v, product_name) ==
    IF v = "app" THEN app_check_competitor_pricing(product_name)
    ELSE console_check_competitor_pricing(product_name)

---------------------------------------------------------------------------
(* send_restock_alert: what it renders, and what it returns.               *)

Text(line) == [kind |-> "text", records |-> <<>>, text |-> line]

\* A plausible slip: a quantity below zero is refused instead of rendered.
app_send_restock_alert_guarded(product_name, quantity, reason) ==
    IF quantity < 0
    THEN [rendered |-> <<>>, ret |-> Text(<<"Invalid quantity.">>)]
    ELSE [rendered |->
            << <<"URGENT ALERT: REORDER NEEDED">>,
               <<"**Product:**", "backquote">> \o product_name \o <<"backquote">>,
               <<"**Recommended Quantity:**", "backquote">> \o IntToStr(quantity)
                    \o <<"units", "backquote">>,
               <<"**AI Justification:**">> \o reason >>,
          ret |-> Text(<<"Alert displayed successfully on dashboard.">>)]

\* boldfit_app.py: st.error and three st.write in a container (the markdown
\* code delimiter is the symbol "backquote").
app_send_restock_alert(product_name, quantity, reason) ==
    [rendered |->
        << <<"URGENT ALERT: REORDER NEEDED">>,
           <<"**Product:**", "backquote">> \o product_name \o <<"backquote">>,
           <<"**Recommended Quantity:**", "backquote">> \o IntToStr(quantity)
                \o <<"units", "backquote">>,
           <<"**AI Justification:**">> \o reason >>,
     ret |-> Text(<<"Alert displayed successfully on dashboard.">>)]

\* sentinel_groq.py: five print calls.
console_send_restock_alert(product_name, quantity, reason) ==
    [rendered |->
        << <<"[SLACK ALERT SENT]">>,
           <<"To: #supply-chain-ops">>,
           <<"Message: URGENT REORDER NEEDED for">> \o product_name \o <<".">>,
           <<"Recommended Qty:">> \o IntToStr(quantity),
           <<"AI Reasoning:">> \o reason >>,
     ret |-> Text(<<"Alert sent successfully.">>)]

send_restock_alert(v, product_name, quantity, reason) ==
    IF v = "app" THEN app_send_restock_alert(product_name, quantity, reason)
    ELSE console_send_restock_alert(product_name, quantity, reason)

---------------------------------------------------------------------------
(* Tool calls and their arguments.                                         *)

NoCall == [tool |-> "none", threshold_days |-> 0, product_name |-> <<>>,
           quantity |-> 0, reason |-> <<>>]
NoResult == [kind |-> "none", records |-> <<>>, text |-> <<>>]

AnalyzeCall(t) == [NoCall EXCEPT !.tool = "analyze_inventory_risk",
                                 !.threshold_days = t]
PricingCall(n) == [NoCall EXCEPT !.tool = "check_competitor_pricing",
                                 !.product_name = n]
AlertCall(n, q, r) == [NoCall EXCEPT !.tool = "send_restock_alert",
                                     !.product_name = n, !.quantity = q,
                                     !.reason = r]

\* The effect of one tool invocation on (df, result, surface).
Invoke(v, frame, c) ==
    CASE c.tool = "analyze_inventory_risk" ->
            LET r == analyze_inventory_risk(v, frame, c.threshold_days)
            IN  [frame |-> r.frame, ret |-> r.ret, rendered |-> <<>>]
      [] c.tool = "check_competitor_pricing" ->
            [frame |-> frame, ret |-> check_competitor_pricing(v, c.product_name),
             rendered |-> <<>>]
      [] c.tool = "send_restock_alert" ->
            LET r == send_restock_alert(v, c.product_name, c.quantity, c.reason)
            IN  [frame |-> frame, ret |-> r.ret, rendered |-> r.rendered]

---------------------------------------------------------------------------
(* Input sets.                                                             *)

TableNames == {ProYogaMat, WheyChocolate}
MockPrice(name) == IF name = ProYogaMat THEN 1500 ELSE 4999

Rows == {Row(n, s, b, MockPrice(n)) :
            n \in TableNames, s \in -1..MaxStock, b \in 0..MaxBurn}
Tables == UNION {[1..k -> Rows] : k \in 0..MaxRows}
Thresholds == (-1..MaxThreshold) \cup {DefaultThreshold}

NameTokens == {"Yoga", "Mat", "Whey", "Protein", "Pro"}
NameStrings == UNION {[1..k -> NameTokens] : k \in 0..MaxNameLen}

AlertNames == {ProYogaMat, <<>>}
Quantities == (-MaxQuantity..MaxQuantity) \cup {-90, 90}
Reasons == {<<"Competitor", "price", "is", "higher">>, <<>>}

---------------------------------------------------------------------------
(* SpecRisk: analyze_inventory_risk applied to every table and threshold.  *)

RunIdle ==
    /\ iterations = 0 /\ pending = <<>> /\ first = "none"
    /\ healthySeen = FALSE /\ afterHealthy = FALSE /\ finishReason = "none"
    /\ stdoutRedirected = FALSE /\ errorReported = FALSE

RunUnchanged ==
    UNCHANGED <<iterations, pending, first, healthySeen, afterHealthy,
                finishReason, stdoutRedirected, errorReported>>

InitRisk ==
    /\ variant \in Variants
    /\ cred = "valid"
    /\ pc = "tools"
    /\ df \in {Frame(t) : t \in Tables}
    /\ call = NoCall /\ result = NoResult /\ surface = <<>>
    /\ RunIdle

\* One invocation of a tool function with the given arguments.
Apply(c) ==
    LET r == Invoke(variant, df, c)
    IN  /\ call' = c
        /\ df' = r.frame
        /\ result' = r.ret
        /\ surface' = r.rendered

RiskCall ==
    /\ pc = "tools"
    /\ \E t \in Thresholds : Apply(AnalyzeCall(t))
    /\ UNCHANGED <<variant, cred, pc>>
    /\ RunUnchanged

NextRisk == RiskCall

SpecRisk == InitRisk /\ [][NextRisk]_vars

---------------------------------------------------------------------------
(* SpecTools: the price oracle and the alert sink applied to every input.  *)

InitTools ==
    /\ variant \in Variants
    /\ cred = "valid"
    /\ pc = "tools"
    /\ df \in {Frame(INITIAL_DATA_MOCK), Frame(<<>>)}
    /\ call = NoCall /\ result = NoResult /\ surface = <<>>
    /\ RunIdle

ProbeCalls ==
    {PricingCall(ProYogaMat), PricingCall(WheyChocolate),
     PricingCall(ResistanceBands), AlertCall(ProYogaMat, 90, <<>>)}

PriceCheck ==
    /\ pc = "tools"
    /\ \E n \in NameStrings : Apply(PricingCall(n))
    /\ pc' = "again"
    /\ UNCHANGED <<variant, cred>>
    /\ RunUnchanged

Alert ==
    /\ pc = "tools"
    /\ \E n \in AlertNames, q \in Quantities, r \in Reasons :
            Apply(AlertCall(n, q, r))
    /\ pc' = "again"
    /\ UNCHANGED <<variant, cred>>
    /\ RunUnchanged

\* A further call, after any first one.
CallAgain ==
    /\ pc = "again"
    /\ \E c \in ProbeCalls : Apply(c)
    /\ pc' = "done"
    /\ UNCHANGED <<variant, cred>>
    /\ RunUnchanged

NextTools == PriceCheck \/ Alert \/ CallAgain

SpecTools == InitTools /\ [][NextTools]_vars

---------------------------------------------------------------------------
(* Spec: the two scripts from their first line, and the agent run.         *)

Creds == {"missing", "placeholder", "invalid", "valid"}

\* The rules of the system message handed to the model with every request.
SystemDirective(v) ==
    IF v = "app"
    THEN {"risk_first", "finish_if_healthy", "price_if_at_risk",
          "compare_reorder_30_days_alert"}
    ELSE {"risk_first", "price_if_at_risk", "compare_prices",
          "reorder_30_days", "alert"}

\* Tables the editor can hand over: no rows, and one healthy row.
EditedTables == {<<>>, <<Row(WheyChocolate, 500, 10, 4999)>>}

\* Calls the model can ask for (it chooses the arguments).
ModelCalls ==
    {AnalyzeCall(DefaultThreshold),
     PricingCall(ProYogaMat), PricingCall(ResistanceBands),
     AlertCall(ProYogaMat, 90, <<"Competitor", "price", "is", "higher">>)}
ModelResponses == UNION {[1..k -> ModelCalls] : k \in 1..MaxCallsPerResponse}

Init ==
    /\ variant \in Variants
    /\ cred \in Creds
    /\ pc = "start"
    /\ df = Frame(<<>>)
    /\ call = NoCall /\ result = NoResult /\ surface = <<>>
    /\ RunIdle

\* sentinel_groq.py, line 11: the name st is bound nowhere in the module (no
\* import of streamlit), so evaluating st.secrets raises NameError and the
\* script ends there, whatever the credential.
ConsoleLoad ==
    /\ variant = "console"
    /\ pc = "start"
    /\ pc' = "load_failed"
    /\ UNCHANGED <<variant, cred, df, call, result, surface>>
    /\ RunUnchanged

\* boldfit_app.py, top of the script: st.secrets["GROQ_API_KEY"] raises when
\* the secret is missing; otherwise the table is built and the page waits.
AppLoad ==
    /\ variant = "app"
    /\ pc = "start"
    /\ IF cred = "missing"
       THEN pc' = "load_failed" /\ df' = df
       ELSE pc' = "idle" /\ df' = Frame(INITIAL_DATA_MOCK)
    /\ UNCHANGED <<variant, cred, call, result, surface>>
    /\ RunUnchanged

\* The page is waiting for the user: before a run, or after one ended.
AtRest == variant = "app" /\ pc \in {"idle", "finished", "crashed"}

\* What a rerun of the script wipes: the page and the previous run's trace.
\* sys.stdout is process state and stays as the previous run left it.
FreshPage ==
    /\ call' = NoCall /\ result' = NoResult /\ surface' = <<>>
    /\ iterations' = 0 /\ pending' = <<>> /\ first' = "none"
    /\ healthySeen' = FALSE /\ afterHealthy' = FALSE
    /\ finishReason' = "none"

\* GLOBAL_DF = edited_df: the editor hands over a whole new table.
EditTable ==
    /\ AtRest
    /\ \E t \in EditedTables : df' = Frame(t)
    /\ FreshPage
    /\ pc' = "idle"
    /\ errorReported' = FALSE
    /\ UNCHANGED <<variant, cred, stdoutRedirected>>

\* The button, with the key still the placeholder "gsk_...": st.error only.
PressButtonPlaceholder ==
    /\ AtRest
    /\ cred = "placeholder"
    /\ FreshPage
    /\ pc' = "idle"
    /\ errorReported' = TRUE
    /\ UNCHANGED <<variant, cred, df, stdoutRedirected>>

\* run_agent, ChatGroq(...) raises: st.error, then st.stop().
RunAgentInitFails ==
    /\ AtRest
    /\ cred # "placeholder"
    /\ FreshPage
    /\ pc' = "idle"
    /\ errorReported' = TRUE
    /\ UNCHANGED <<variant, cred, df, stdoutRedirected>>

\* A variant of run_agent that fetches the risk report itself before it
\* hands over to the agent.
RunAgentEager ==
    /\ AtRest
    /\ cred # "placeholder"
    /\ LET r == Invoke(variant, df, AnalyzeCall(DefaultThreshold))
       IN  /\ call' = AnalyzeCall(DefaultThreshold)
           /\ result' = r.ret /\ surface' = <<>> /\ df' = r.frame
    /\ iterations' = 0 /\ pending' = <<>>
    /\ first' = "analyze_inventory_risk"
    /\ healthySeen' = FALSE /\ afterHealthy' = FALSE
    /\ finishReason' = "none"
    /\ pc' = "awaiting"
    /\ errorReported' = FALSE
    /\ stdoutRedirected' = TRUE
    /\ UNCHANGED <<variant, cred>>

\* run_agent up to agent_executor.invoke: the model client, the prompt and
\* the executor are built, sys.stdout is pointed at AGENT_LOG, and the
\* executor asks the model for its first decision.  No tool is called here.
RunAgent ==
    /\ AtRest
    /\ cred # "placeholder"
    /\ FreshPage
    /\ pc' = "awaiting"
    /\ errorReported' = FALSE
    /\ stdoutRedirected' = TRUE
    /\ UNCHANGED <<variant, cred, df>>

\* A loop with no limit on its iterations.
ShouldContinueUncapped(n) == n >= 0

\* AgentExecutor._should_continue, with the executor's defaults (the script
\* passes no max_iterations and no max_execution_time).
ShouldContinue(n) == n < MaxIterations

\* What the script does with an exception of the model call: the console
\* script catches it around invoke and prints it; run_agent has no handler,
\* so it leaves run_agent at line 124 and line 125 never restores sys.stdout.
ModelErrorHandling(v) ==
    IF v = "console"
    THEN [pc |-> "aborted", reported |-> TRUE]
    ELSE [pc |-> "crashed", reported |-> FALSE]

\* The model call fails: unreachable service, or a credential it rejects.
ModelFails ==
    /\ pc = "awaiting"
    /\ ShouldContinue(iterations)
    /\ pc' = ModelErrorHandling(variant).pc
    /\ errorReported' = ModelErrorHandling(variant).reported
    /\ finishReason' = "model_error"
    /\ UNCHANGED <<variant, cred, df, call, result, surface, iterations,
                   pending, first, healthySeen, afterHealthy,
                   stdoutRedirected>>

\* The model answers with tool calls: one or several in one response.
ModelRespondsTools ==
    /\ pc = "awaiting"
    /\ ShouldContinue(iterations)
    /\ cred = "valid"
    /\ \E calls \in ModelResponses : pending' = calls
    /\ pc' = "executing"
    /\ UNCHANGED <<variant, cred, df, call, result, surface, iterations,
                   first, healthySeen, afterHealthy, finishReason,
                   stdoutRedirected, errorReported>>

\* The model answers with its final text: invoke returns, stdout is restored
\* and the summary is shown.
ModelRespondsFinal ==
    /\ pc = "awaiting"
    /\ ShouldContinue(iterations)
    /\ cred = "valid"
    /\ pc' = "finished"
    /\ finishReason' = "final_answer"
    /\ stdoutRedirected' = FALSE
    /\ UNCHANGED <<variant, cred, df, call, result, surface, iterations,
                   pending, first, healthySeen, afterHealthy, errorReported>>

\* An executor that ends the run by itself on the healthy sentinel.
ExecuteToolStopOnHealthy ==
    /\ pc = "executing"
    /\ Apply(Head(pending))
    /\ first' = (IF first = "none" THEN Head(pending).tool ELSE first)
    /\ afterHealthy' = (afterHealthy \/ healthySeen)
    /\ healthySeen' = (healthySeen \/
            (Head(pending).tool = "analyze_inventory_risk"
                /\ IsHealthy(Invoke(variant, df, Head(pending)).ret)))
    /\ IF IsHealthy(Invoke(variant, df, Head(pending)).ret)
       THEN /\ pending' = <<>> /\ pc' = "finished"
            /\ finishReason' = "final_answer" /\ iterations' = iterations
       ELSE /\ pending' = Tail(pending)
            /\ finishReason' = finishReason
            /\ IF Tail(pending) = <<>>
               THEN pc' = "awaiting" /\ iterations' = iterations + 1
               ELSE pc' = "executing" /\ iterations' = iterations
    /\ UNCHANGED <<variant, cred, stdoutRedirected, errorReported>>

\* The executor runs the next call of the response and records its result;
\* after the last one the iteration is counted and the model is asked again.
ExecuteTool ==
    /\ pc = "executing"
    /\ Apply(Head(pending))
    /\ first' = (IF first = "none" THEN Head(pending).tool ELSE first)
    /\ afterHealthy' = (afterHealthy \/ healthySeen)
    /\ healthySeen' = (healthySeen \/
            (Head(pending).tool = "analyze_inventory_risk"
                /\ IsHealthy(Invoke(variant, df, Head(pending)).ret)))
    /\ pending' = Tail(pending)
    /\ IF Tail(pending) = <<>>
       THEN pc' = "awaiting" /\ iterations' = iterations + 1
       ELSE pc' = "executing" /\ iterations' = iterations
    /\ UNCHANGED <<variant, cred, finishReason, stdoutRedirected,
                   errorReported>>

\* The loop condition fails: the executor returns its stopped response as
\* the output, and run_agent goes on as after a final answer.
IterationLimit ==
    /\ pc = "awaiting"
    /\ ~ShouldContinue(iterations)
    /\ pc' = "finished"
    /\ finishReason' = "iteration_limit"
    /\ stdoutRedirected' = FALSE
    /\ UNCHANGED <<variant, cred, df, call, result, surface, iterations,
                   pending, first, healthySeen, afterHealthy, errorReported>>

Next ==
    \/ ConsoleLoad
    \/ AppLoad
    \/ EditTable
    \/ PressButtonPlaceholder
    \/ RunAgentInitFails
    \/ RunAgent
    \/ ModelFails
    \/ ModelRespondsTools
    \/ ModelRespondsFinal
    \/ ExecuteTool
    \/ IterationLimit

Spec == Init /\ [][Next]_vars

---------------------------------------------------------------------------
(* Properties of analyze_inventory_risk, under SpecRisk.                   *)

Analyzed == call.tool = "analyze_inventory_risk"

AllBurnPositive == \A i \in 1..Len(df.rows) : df.rows[i].daily_burn_rate > 0
SomeBurnZero == \E i \in 1..Len(df.rows) : df.rows[i].daily_burn_rate = 0

\* Indices of the records with stock / burn-rate <= threshold, stated on the
\* integers: stock <= threshold * burn-rate, for a burn rate > 0.
AtRiskIndices ==
    {i \in 1..Len(df.rows) :
        df.rows[i].current_stock
            <= call.threshold_days * df.rows[i].daily_burn_rate}

\* The j-th smallest element of a set of indices.
NthIndex(S, j) == CHOOSE i \in S : Cardinality({x \in S : x < i}) = j - 1

\* C1: on a table whose burn rates are all > 0, analyze_inventory_risk
\* returns the healthy sentinel iff no record has stock / burn-rate <=
\* threshold (inclusive); otherwise it returns exactly those records, in
\* table order, duplicates of a name kept, each with remaining-days equal to
\* stock / burn-rate.
C1_RiskReportExact ==
    (Analyzed /\ AllBurnPositive) =>
        /\ IsHealthy(result) <=> (AtRiskIndices = {})
        /\ (AtRiskIndices # {}) =>
            /\ result.kind = "records"
            /\ Len(result.records) = Cardinality(AtRiskIndices)
            /\ \A j \in 1..Len(result.records) :
                LET rec == result.records[j]
                    row == df.rows[NthIndex(AtRiskIndices, j)]
                IN  /\ rec.product_name = row.product_name
                    /\ rec.current_stock = row.current_stock
                    /\ rec.daily_burn_rate = row.daily_burn_rate
                    /\ rec.current_price = row.current_price
                    /\ rec.days_remaining.k = "num"
                    /\ rec.days_remaining.d > 0
                    /\ rec.days_remaining.n * row.daily_burn_rate
                        = row.current_stock * rec.days_remaining.d

\* C1's case: two records of the same name, the second one exactly on the
\* threshold and reported, the first one above it and left out.
C1_Witness ==
    /\ Analyzed /\ AllBurnPositive
    /\ Len(df.rows) = 2
    /\ df.rows[1].product_name = df.rows[2].product_name
    /\ call.threshold_days > 0
    /\ df.rows[2].current_stock
        = call.threshold_days * df.rows[2].daily_burn_rate
    /\ AtRiskIndices = {2}
    /\ result.kind = "records"
    /\ Len(result.records) = 1

\* Records reported for a zero burn rate.
ZeroBurnReported ==
    SelectSeq(result.records, LAMBDA rec : rec.daily_burn_rate = 0)

\* C6 as stated: with a zero burn rate in the table the invocation returns
\* nothing, neither the sentinel nor a record list; it fails.
C6_ZeroBurnRaises ==
    (Analyzed /\ SomeBurnZero) => result.kind \notin {"text", "records"}

\* C6, amended: with a zero burn rate in the table the invocation still
\* returns the sentinel or a record list.  The quotient of a zero-burn
\* record is inf, nan or -inf, so the record is reported exactly when its
\* stock is negative, with remaining-days -inf.
C6_ZeroBurnReturns ==
    (Analyzed /\ SomeBurnZero) =>
        /\ result.kind \in {"text", "records"}
        /\ Len(ZeroBurnReported)
            = Cardinality({i \in 1..Len(df.rows) :
                            /\ df.rows[i].daily_burn_rate = 0
                            /\ df.rows[i].current_stock < 0})
        /\ \A j \in 1..Len(ZeroBurnReported) :
            /\ ZeroBurnReported[j].current_stock < 0
            /\ ZeroBurnReported[j].days_remaining = NegInf

\* C6's case: a zero-burn record with stock in hand next to a record at
\* risk; the call returns the list, without the zero-burn record.
C6_Witness ==
    /\ Analyzed
    /\ Len(df.rows) = 2
    /\ df.rows[1].daily_burn_rate = 0 /\ df.rows[1].current_stock > 0
    /\ df.rows[2].daily_burn_rate > 0
    /\ result.kind = "records"
    /\ Len(result.records) = 1
    /\ result.records[1].daily_burn_rate > 0

---------------------------------------------------------------------------
(* Properties of the price oracle and the alert sink, under SpecTools.     *)

DigitValue(c) == CHOOSE n \in 0..9 : Digit(n) = c
IsDigit(c) == \E n \in 0..9 : Digit(n) = c

RECURSIVE StrToNat(_)
StrToNat(s) == IF Len(s) = 0 THEN 0
               ELSE 10 * StrToNat(SubSeq(s, 1, Len(s) - 1))
                        + DigitValue(s[Len(s)])

IsNat(s) == Len(s) > 0 /\ \A i \in 1..Len(s) : IsDigit(s[i])

\* The line without its first `pre` and last `post` symbols.
Strip(line, pre, post) == SubSeq(line, pre + 1, Len(line) - post)

Priced == call.tool = "check_competitor_pricing"

\* The price, in cents, that a pricing sentence reports for product name n:
\* the sentence is "... for" n "is $" d..d "." d d ".".
ReportedPrice(text, n) ==
    LET amount == Strip(text, Len(n) + 2, 1)
        whole == Strip(amount, 0, 3)
    IN  IF /\ Len(text) >= Len(n) + 7
           /\ SubSeq(text, 1, Len(n) + 2)
                = <<"The average competitor price for">> \o n \o <<"is $">>
           /\ text[Len(text)] = "."
           /\ IsNat(whole)
           /\ amount[Len(amount) - 2] = "."
           /\ IsDigit(amount[Len(amount) - 1]) /\ IsDigit(amount[Len(amount)])
        THEN 100 * StrToNat(whole) + 10 * DigitValue(amount[Len(amount) - 1])
                + DigitValue(amount[Len(amount)])
        ELSE -1

\* C7 as stated: 19.99 when the name contains "Yoga Mat", 45.00 when it
\* contains "Whey Protein", 28.00 for any other name.
C7_PriceBySubstring ==
    Priced =>
        LET n == call.product_name
            price == ReportedPrice(result.text, n)
        IN  /\ Contains(n, YogaMatFragment) => price = 1999
            /\ Contains(n, WheyProteinFragment) => price = 4500
            /\ (~Contains(n, YogaMatFragment)
                    /\ ~Contains(n, WheyProteinFragment)) => price = 2800

\* C7, amended: 19.99 when the name contains "Yoga Mat"; 45.00 when it
\* contains "Whey Protein" and not "Yoga Mat"; 28.00 for any other name.  The
\* price depends on the name alone: not on the table, on an earlier call or
\* on the variant.
C7_PriceFirstMatch ==
    Priced =>
        LET n == call.product_name
            price == ReportedPrice(result.text, n)
        IN  /\ result.kind = "text"
            /\ Contains(n, YogaMatFragment) => price = 1999
            /\ (Contains(n, WheyProteinFragment)
                    /\ ~Contains(n, YogaMatFragment)) => price = 4500
            /\ (~Contains(n, YogaMatFragment)
                    /\ ~Contains(n, WheyProteinFragment)) => price = 2800
            /\ app_check_competitor_pricing(n)
                = console_check_competitor_pricing(n)

\* C7's case: a name holding both fragments, priced as a yoga mat.
C7_Witness ==
    /\ Priced
    /\ Contains(call.product_name, YogaMatFragment)
    /\ Contains(call.product_name, WheyProteinFragment)
    /\ ReportedPrice(result.text, call.product_name) = 1999

Alerted == call.tool = "send_restock_alert"

\* "-" d..d or d..d read back as an integer.
StrToInt(s) == IF Len(s) > 0 /\ s[1] = "-" THEN -StrToNat(Tail(s))
               ELSE StrToNat(s)

\* The three values an alert shows, read back from the lines it rendered.
RenderedProduct ==
    IF variant = "app" THEN Strip(surface[2], 2, 1)
    ELSE Strip(surface[3], 1, 1)
RenderedQuantity ==
    IF variant = "app" THEN Strip(surface[3], 2, 2)
    ELSE Strip(surface[4], 1, 0)
RenderedReason ==
    IF variant = "app" THEN Strip(surface[4], 1, 0)
    ELSE Strip(surface[5], 1, 0)

Acknowledgment ==
    IF variant = "app" THEN <<"Alert displayed successfully on dashboard.">>
    ELSE <<"Alert sent successfully.">>

\* C8: for every name, every integer quantity (zero and negative included)
\* and every justification, send_restock_alert renders the three values
\* unmodified, never refuses the call, and returns its fixed acknowledgment.
C8_AlertEchoes ==
    Alerted =>
        /\ Len(surface) = (IF variant = "app" THEN 4 ELSE 5)
        /\ RenderedProduct = call.product_name
        /\ StrToInt(RenderedQuantity) = call.quantity
        /\ RenderedReason = call.reason
        /\ result.kind = "text"
        /\ result.text = Acknowledgment

\* C8's case: a negative two-digit quantity rendered by the app.
C8_Witness ==
    /\ Alerted
    /\ variant = "app"
    /\ call.quantity = -90
    /\ call.product_name = ProYogaMat
    /\ RenderedQuantity = <<"-", "9", "0">>
    /\ result.text = Acknowledgment

---------------------------------------------------------------------------
(* Properties of the run, under Spec.                                      *)

\* C2 as stated: in every run the first capability invoked is the risk
\* analyzer.
C2_AnalyzerFirst == first \in {"none", "analyze_inventory_risk"}

\* C2, amended: the directive tells the model to check the inventory risk
\* first, and the loop does not enforce it: the first capability invoked in
\* a run is the first call of the model's first response with tool calls,
\* whichever of the three that is, and none is invoked before that response.
C2_FirstIsModelsChoice ==
    [][(first = "none" /\ first' # "none") =>
            /\ pc = "executing"
            /\ iterations = 0
            /\ pending # <<>>
            /\ first' = Head(pending).tool
            /\ "risk_first" \in SystemDirective(variant)]_vars

\* C2's case: a run whose first capability is the alert sink.
C2_Witness ==
    /\ first = "send_restock_alert"
    /\ call.tool = "send_restock_alert"
    /\ iterations <= 1

\* C3 as stated: once the analyzer has returned the healthy sentinel, no
\* further capability is invoked in that run.
C3_StopsWhenHealthy == healthySeen => ~afterHealthy

\* C3, amended: after the healthy sentinel the loop goes on as after any
\* other result: the remaining calls of the same response are executed,
\* then the model is asked again, and a capability invoked after the
\* sentinel is one the model asked for.  Only the app's directive tells the
\* model to finish when the inventory is healthy; the loop enforces nothing.
C3_HealthyLeftToModel ==
    [][/\ (healthySeen' /\ ~healthySeen) =>
            /\ pc = "executing"
            /\ pending' = Tail(pending)
            /\ pc' = (IF Tail(pending) = <<>> THEN "awaiting" ELSE "executing")
       /\ (afterHealthy' /\ ~afterHealthy) =>
            /\ pc = "executing"
            /\ call' = Head(pending)
       /\ "finish_if_healthy" \in SystemDirective("app")
       /\ "finish_if_healthy" \notin SystemDirective("console")]_vars

\* C3's case: an empty table, the sentinel returned, and an alert sent
\* after it in the same run.
C3_Witness ==
    /\ df.rows = <<>>
    /\ healthySeen /\ afterHealthy
    /\ call.tool = "send_restock_alert"

\* C4: a failed model call is caught at the top level of the run and
\* reported as text by the script, and the run is over: no further model
\* call, no capability invoked after it.
C4_ModelFailureCaught ==
    (finishReason = "model_error") =>
        /\ errorReported
        /\ pc \notin {"awaiting", "executing"}

C10_FinishedOnlyByFinalAnswer ==
    (pc = "finished") => (finishReason = "final_answer")

\* C10, amended: a run asks the model, executes the one or several calls of
\* its response in order, and asks again.  It finishes when the model emits
\* a final answer or when the executor's default limit of 15 iterations is
\* reached: the script sets no limit of its own and lifts none.
C10_FinishedByAnswerOrLimit ==
    /\ iterations <= MaxIterations
    /\ (pc = "executing") <=> (pending # <<>>)
    /\ (pc = "executing") => ShouldContinue(iterations)
    /\ Len(pending) <= MaxCallsPerResponse
    /\ (pc = "finished") =>
            finishReason \in {"final_answer", "iteration_limit"}
    /\ (finishReason = "iteration_limit") =>
            (pc = "finished" /\ iterations = MaxIterations)

\* C10's case: a run ended by the iteration limit, the model never having
\* emitted a final answer.
C10_Witness ==
    /\ pc = "finished"
    /\ finishReason = "iteration_limit"
    /\ iterations = MaxIterations
    /\ first # "none"

============================================================================
